---- MODULE Spec2Model ----
(***************************************************************************)
(* Model of tools/cbfsadm/restore.go: the restore command of cbfsadm.      *)
(* One main goroutine (restoreCommand) decodes a gzip'd stream of JSON     *)
(* records, filters them by a regular expression and hands them over an    *)
(* unbuffered channel to *restoreWorkers goroutines (restoreWorker), each  *)
(* of which POSTs the record to the server (restoreFile).                  *)
(***************************************************************************)
EXTENDS Integers, Sequences, FiniteSets, Bags, TLC

(* ---------------------------------------------------------------------- *)
(* Bounds of the model                                                    *)
(* ---------------------------------------------------------------------- *)
MaxLen == 2          \* longest record stream explored
MaxWorkers == 2      \* largest value of the -workers flag explored

(* ---------------------------------------------------------------------- *)
(* Program constants                                                      *)
(* ---------------------------------------------------------------------- *)
StatusCreated == 201
StatusConflict == 409
StatusOther == 500   \* stands for every status that is neither 201 nor 409
ExpireDefault == -1

\* Values of the -expire flag: the default and an override.
ExpireValues == {ExpireDefault, 3600}

StatusCodes == {StatusCreated, StatusConflict, StatusOther}

\* Paths are sequences of characters, so that the pattern can look at them.
Paths == {<<"a">>, <<"b">>, <<"c">>}

\* One element of the backup stream: a well-formed JSON record with its Path,
\* or bytes json.Decoder cannot decode (ok = FALSE).
Malformed == [ok |-> FALSE, Path |-> <<>>]
Record(p) == [ok |-> TRUE, Path |-> p]
Elements == {Record(p) : p \in Paths} \cup {Malformed}

RECURSIVE SeqsUpTo(_, _)
SeqsUpTo(S, n) ==
    IF n = 0 THEN {<<>>}
    ELSE LET shorter == SeqsUpTo(S, n - 1)
         IN  shorter \cup {Append(s, x) : s \in {t \in shorter : Len(t) = n - 1}, x \in S}

Streams == SeqsUpTo(Elements, MaxLen)

\* The file named on the command line: missing, not a gzip file, or a gzip'd
\* stream of elements.
Sources ==
    {[kind |-> "missing", stream |-> <<>>], [kind |-> "notgzip", stream |-> <<>>]}
    \cup {[kind |-> "gzip", stream |-> s] : s \in Streams}

\* Values of the -match flag: the default, the pattern of the documented
\* scenario, and one that does not compile.
PatAll == ".*"
PatAC == "^a|c$"
PatBad == "("
Patterns == {PatAll, PatAC, PatBad}

\* regexp.Compile: the error result.
CompileFails(pat) == pat = PatBad

\* regexp.MatchString for the compiled patterns: ".*" matches everything;
\* "^a|c$" is the alternation of "^a" and "c$" (unanchored search).
MatchString(pat, path) ==
    CASE pat = PatAll -> TRUE
      [] pat = PatAC  -> \/ (Len(path) > 0 /\ path[1] = "a")
                         \/ (Len(path) > 0 /\ path[Len(path)] = "c")
      [] OTHER        -> FALSE

Workers == 1..MaxWorkers

\* The work item the decoder builds: Path, and Meta identified by the
\* record's position in the stream (an opaque document, one per record).
NoItem == [Path |-> <<>>, Meta |-> 0]
restoreWorkItem(path, meta) == [Path |-> path, Meta |-> meta]

VARIABLES
    restoreForce,    \* -f
    restoreNoop,     \* -n
    restorePat,      \* -match
    restoreWorkers,  \* -workers
    restoreExpire,   \* -expire
    source,          \* the file restoreFlags.Arg(0) names
    fOpen,           \* f is open (os.Open succeeded and f.Close not yet run)
    proc,            \* "running", or how the process ended: "exit0", "exit1", "exit2"
    fatal,           \* the message of the fatal log line, "" if none
    pc,              \* position of restoreCommand
    i,               \* loop variable of the spawn loop
    pos,             \* number of elements the decoder has consumed
    ob,              \* the item restoreCommand holds
    done,            \* the flag that ends the decode loop
    nfiles,          \* the accepted count
    closed,          \* number of close(ch) executed
    wg,              \* the WaitGroup counter
    wpc,             \* position of each restoreWorker
    wob,             \* the item each restoreWorker holds
    received,        \* history: <<worker, item>> in the order of the receives
    finished,        \* history: Meta of the items whose restoreFile returned
    requests,        \* history: the POST requests issued
    answered,        \* history: the status codes the server has answered
    logged,          \* the log: a bag of lines <<kind, path>>
    summary          \* the number printed by the summary line, -1 if not printed

flags == <<restoreForce, restoreNoop, restorePat, restoreWorkers, restoreExpire, source>>
mainv == <<fOpen, pc, i, pos, ob, done, nfiles, closed, summary>>
procv == <<proc, fatal>>
workv == <<wpc, wob, finished, requests, answered, logged>>
vars == <<flags, mainv, procv, workv, wg, received>>

stream == source.stream

\* The state when restoreCommand is entered, the flags and the file drawn
\* from the given sets.
InitWith(pats, expires, sources) ==
    /\ restoreForce \in BOOLEAN
    /\ restoreNoop \in BOOLEAN
    /\ restorePat \in pats
    /\ restoreWorkers \in 0..MaxWorkers
    /\ restoreExpire \in expires
    /\ source \in sources
    /\ fOpen = FALSE
    /\ proc = "running"
    /\ fatal = ""
    /\ pc = "compile"
    /\ i = 0
    /\ pos = 0
    /\ ob = NoItem
    /\ done = FALSE
    /\ nfiles = 0
    /\ closed = 0
    /\ wg = 0
    /\ wpc = [w \in Workers |-> "unstarted"]
    /\ wob = [w \in Workers |-> NoItem]
    /\ received = <<>>
    /\ finished = {}
    /\ requests = {}
    /\ answered = {}
    /\ logged = EmptyBag
    /\ summary = -1

\* The sources whose records all have paths a or b: under the pattern ^a|c$
\* the first passes the filter and the second does not.
SourcesAB ==
    {src \in Sources :
        \A k \in 1..Len(src.stream) :
            src.stream[k].ok => src.stream[k].Path \in {<<"a">>, <<"b">>}}

\* The stream of the documented scenario: the records a, b, c.
ScenarioSource ==
    [kind |-> "gzip", stream |-> <<Record(<<"a">>), Record(<<"b">>), Record(<<"c">>)>>]

\* Every pattern and every source with the default -expire; the -expire
\* override, which only fills a request header, with the pattern ^a|c$ and
\* the paths a and b; and the documented scenario.
Init ==
    \/ InitWith(Patterns, {ExpireDefault}, Sources)
    \/ InitWith({PatAC}, ExpireValues \ {ExpireDefault}, SourcesAB)
    \/ InitWith({PatAC}, {ExpireDefault}, {ScenarioSource})

\* The initial states of the runs explored for progress: default -expire,
\* the pattern ^a|c$ or an invalid one, paths a and b.
LiveInit == InitWith({PatAC, PatBad}, {ExpireDefault}, SourcesAB)

\* log.Fatalf: print the line, then os.Exit(1). Every goroutine stops where
\* it is and no deferred call runs.
Fatalf(msg) ==
    /\ proc' = "exit1"
    /\ fatal' = msg

\* cbfstool.MaybeFatal(err, msg): fatal when err is not nil, nothing otherwise.
MaybeFatal(err, msg) ==
    IF err THEN Fatalf(msg) ELSE UNCHANGED procv


(* ---------------------------------------------------------------------- *)
(* restoreCommand: the main goroutine                                     *)
(* ---------------------------------------------------------------------- *)

\* regex, err := regexp.Compile(*restorePat); MaybeFatal
Compile ==
    /\ proc = "running" /\ pc = "compile"
    /\ MaybeFatal(CompileFails(restorePat), "Error parsing match pattern")
    /\ pc' = IF CompileFails(restorePat) THEN pc ELSE "open"
    /\ UNCHANGED <<flags, fOpen, i, pos, ob, done, nfiles, closed, summary, workv, wg, received>>

\* f, err := os.Open(fn); MaybeFatal; defer f.Close()
Open ==
    /\ proc = "running" /\ pc = "open"
    /\ MaybeFatal(source.kind = "missing", "Error opening restore file")
    /\ fOpen' = (source.kind # "missing")
    /\ pc' = IF source.kind = "missing" THEN pc ELSE "gzip"
    /\ UNCHANGED <<flags, i, pos, ob, done, nfiles, closed, summary, workv, wg, received>>

\* gz, err := gzip.NewReader(f); MaybeFatal
Gzip ==
    /\ proc = "running" /\ pc = "gzip"
    /\ MaybeFatal(source.kind = "notgzip", "Error uncompressing restore file")
    /\ pc' = IF source.kind = "notgzip" THEN pc ELSE "spawn"
    /\ UNCHANGED <<flags, fOpen, i, pos, ob, done, nfiles, closed, summary, workv, wg, received>>

\* The spawn loop with an off-by-one bound: one worker too few.
SpawnOneTooFew ==
    /\ proc = "running" /\ pc = "spawn"
    /\ IF i < restoreWorkers - 1
       THEN /\ wg' = wg + 1
            /\ wpc' = [wpc EXCEPT ![i + 1] = "range"]
            /\ i' = i + 1
            /\ pc' = pc
       ELSE /\ pc' = "decode"
            /\ UNCHANGED <<wg, wpc, i>>
    /\ UNCHANGED <<flags, procv, fOpen, pos, ob, done, nfiles, closed, summary,
                   wob, finished, requests, answered, logged, received>>

\* for i := 0; i < *restoreWorkers; i++ { wg.Add(1); go restoreWorker(...) }
Spawn ==
    /\ proc = "running" /\ pc = "spawn"
    /\ IF i < restoreWorkers
       THEN /\ wg' = wg + 1
            /\ wpc' = [wpc EXCEPT ![i + 1] = "range"]
            /\ i' = i + 1
            /\ pc' = pc
       ELSE /\ pc' = "decode"
            /\ UNCHANGED <<wg, wpc, i>>
    /\ UNCHANGED <<flags, procv, fOpen, pos, ob, done, nfiles, closed, summary,
                   wob, finished, requests, answered, logged, received>>

\* Decode without the regex.MatchString test: every well-formed record is
\* counted and sent.
DecodeNoFilter ==
    /\ proc = "running" /\ pc = "decode"
    /\ IF pos = Len(stream)
       THEN /\ done' = TRUE
            /\ pc' = "close"
            /\ UNCHANGED <<procv, pos, ob, nfiles>>
       ELSE LET el == stream[pos + 1] IN
            /\ pos' = pos + 1
            /\ IF ~el.ok
               THEN /\ Fatalf("Error reading backup file")
                    /\ UNCHANGED <<pc, ob, done, nfiles>>
               ELSE /\ UNCHANGED <<procv, done>>
                    /\ nfiles' = nfiles + 1
                    /\ ob' = restoreWorkItem(el.Path, pos + 1)
                    /\ pc' = "send"
    /\ UNCHANGED <<flags, fOpen, i, closed, summary, workv, wg, received>>

\* Decode with a send that does not block (the item is left to a send in
\* the background): the loop decodes on while the item is undelivered.
DecodeNoBlock ==
    /\ proc = "running" /\ pc = "decode"
    /\ IF pos = Len(stream)
       THEN /\ done' = TRUE
            /\ pc' = "close"
            /\ UNCHANGED <<procv, pos, ob, nfiles>>
       ELSE LET el == stream[pos + 1] IN
            /\ pos' = pos + 1
            /\ IF ~el.ok
               THEN /\ Fatalf("Error reading backup file")
                    /\ UNCHANGED <<pc, ob, done, nfiles>>
               ELSE /\ UNCHANGED procv
                    /\ IF MatchString(restorePat, el.Path)
                       THEN /\ nfiles' = nfiles + 1
                            /\ ob' = restoreWorkItem(el.Path, pos + 1)
                            /\ UNCHANGED <<pc, done>>
                       ELSE UNCHANGED <<pc, ob, done, nfiles>>
    /\ UNCHANGED <<flags, fOpen, i, closed, summary, workv, wg, received>>

\* Decode that skips a malformed element instead of ending the process.
DecodeSkipMalformed ==
    /\ proc = "running" /\ pc = "decode"
    /\ IF pos = Len(stream)
       THEN /\ done' = TRUE
            /\ pc' = "close"
            /\ UNCHANGED <<procv, pos, ob, nfiles>>
       ELSE LET el == stream[pos + 1] IN
            /\ pos' = pos + 1
            /\ UNCHANGED procv
            /\ IF el.ok /\ MatchString(restorePat, el.Path)
               THEN /\ nfiles' = nfiles + 1
                    /\ ob' = restoreWorkItem(el.Path, pos + 1)
                    /\ pc' = "send"
                    /\ UNCHANGED done
               ELSE UNCHANGED <<pc, ob, done, nfiles>>
    /\ UNCHANGED <<flags, fOpen, i, closed, summary, workv, wg, received>>

\* Decode that walks the records from the last to the first.
DecodeReverse ==
    /\ proc = "running" /\ pc = "decode"
    /\ IF pos = Len(stream)
       THEN /\ done' = TRUE
            /\ pc' = "close"
            /\ UNCHANGED <<procv, pos, ob, nfiles>>
       ELSE LET el == stream[Len(stream) - pos] IN
            /\ pos' = pos + 1
            /\ IF ~el.ok
               THEN /\ Fatalf("Error reading backup file")
                    /\ UNCHANGED <<pc, ob, done, nfiles>>
               ELSE /\ UNCHANGED procv
                    /\ IF MatchString(restorePat, el.Path)
                       THEN /\ nfiles' = nfiles + 1
                            /\ ob' = restoreWorkItem(el.Path, Len(stream) - pos)
                            /\ pc' = "send"
                            /\ UNCHANGED done
                       ELSE UNCHANGED <<pc, ob, done, nfiles>>
    /\ UNCHANGED <<flags, fOpen, i, closed, summary, workv, wg, received>>

\* One turn of the decode loop up to the send: d.Decode(&ob) and the switch.
Decode ==
    /\ proc = "running" /\ pc = "decode"
    /\ IF pos = Len(stream)
       THEN \* io.EOF: done = true, the loop ends
            /\ done' = TRUE
            /\ pc' = "close"
            /\ UNCHANGED <<procv, pos, ob, nfiles>>
       ELSE LET el == stream[pos + 1] IN
            /\ pos' = pos + 1
            /\ IF ~el.ok
               THEN /\ Fatalf("Error reading backup file")
                    /\ UNCHANGED <<pc, ob, done, nfiles>>
               ELSE /\ UNCHANGED procv
                    /\ IF MatchString(restorePat, el.Path)
                       THEN /\ nfiles' = nfiles + 1
                            /\ ob' = restoreWorkItem(el.Path, pos + 1)
                            /\ pc' = "send"
                            /\ UNCHANGED done
                       ELSE UNCHANGED <<pc, ob, done, nfiles>>
    /\ UNCHANGED <<flags, fOpen, i, closed, summary, workv, wg, received>>

\* A hand-off that gives the item to worker w and leaves it with the sender,
\* so that it is handed over again.
RecvDup(w) ==
    /\ proc = "running" /\ pc = "send"
    /\ wpc[w] = "range" /\ closed = 0
    /\ wob' = [wob EXCEPT ![w] = ob]
    /\ wpc' = [wpc EXCEPT ![w] = "restore"]
    /\ received' = Append(received, <<w, ob>>)
    /\ UNCHANGED <<flags, mainv, procv, finished, requests, answered, logged, wg>>

\* ch <- ob meeting the receive of `for ob := range ch` in worker w: the
\* channel is unbuffered, so the send completes exactly when one worker
\* receives.
Recv(w) ==
    /\ proc = "running" /\ pc = "send"
    /\ wpc[w] = "range" /\ closed = 0
    /\ wob' = [wob EXCEPT ![w] = ob]
    /\ wpc' = [wpc EXCEPT ![w] = "restore"]
    /\ received' = Append(received, <<w, ob>>)
    /\ ob' = NoItem
    /\ pc' = "decode"
    /\ UNCHANGED <<flags, procv, fOpen, i, pos, done, nfiles, closed, summary,
                   finished, requests, answered, logged, wg>>

\* The Go runtime ends the process ("all goroutines are asleep - deadlock!",
\* exit status 2) when the main goroutine blocks on the send and no other
\* goroutine exists.
Deadlock ==
    /\ proc = "running" /\ pc = "send"
    /\ restoreWorkers <= 0
    /\ proc' = "exit2"
    /\ fatal' = "all goroutines are asleep - deadlock!"
    /\ UNCHANGED <<flags, mainv, workv, wg, received>>

\* close(ch) placed inside the decode loop: the loop goes on after it.
CloseInLoop ==
    /\ proc = "running" /\ pc = "close"
    /\ closed' = closed + 1
    /\ pc' = "decode"
    /\ done' = FALSE
    /\ UNCHANGED <<flags, procv, fOpen, i, pos, ob, nfiles, summary, workv, wg, received>>

\* close(ch)
Close ==
    /\ proc = "running" /\ pc = "close"
    /\ closed' = closed + 1
    /\ pc' = "wait"
    /\ UNCHANGED <<flags, procv, fOpen, i, pos, ob, done, nfiles, summary, workv, wg, received>>

\* A wg.Wait() that does not wait.
WaitNoJoin ==
    /\ proc = "running" /\ pc = "wait"
    /\ pc' = "summary"
    /\ UNCHANGED <<flags, procv, fOpen, i, pos, ob, done, nfiles, closed, summary, workv, wg, received>>

\* wg.Wait() returns when the counter is zero.
Wait ==
    /\ proc = "running" /\ pc = "wait"
    /\ wg = 0
    /\ pc' = "summary"
    /\ UNCHANGED <<flags, procv, fOpen, i, pos, ob, done, nfiles, closed, summary, workv, wg, received>>

\* A summary that prints the number of records read, not the accepted count.
SummaryCountsDecoded ==
    /\ proc = "running" /\ pc = "summary"
    /\ summary' = pos
    /\ pc' = "return"
    /\ UNCHANGED <<flags, procv, fOpen, i, pos, ob, done, nfiles, closed, workv, wg, received>>

\* log.Printf("Restored %v files in %v", nfiles, ...)
Summary ==
    /\ proc = "running" /\ pc = "summary"
    /\ summary' = nfiles
    /\ pc' = "return"
    /\ UNCHANGED <<flags, procv, fOpen, i, pos, ob, done, nfiles, closed, workv, wg, received>>

\* restoreCommand returns: the deferred f.Close() runs and the process ends.
Return ==
    /\ proc = "running" /\ pc = "return"
    /\ fOpen' = FALSE
    /\ pc' = "done"
    /\ proc' = "exit0"
    /\ UNCHANGED <<flags, fatal, i, pos, ob, done, nfiles, closed, summary, workv, wg, received>>

(* ---------------------------------------------------------------------- *)
(* restoreWorker and restoreFile                                          *)
(* ---------------------------------------------------------------------- *)

LogLine(kind, path) == SetToBag({<<kind, path>>})

\* The POST request restoreFile builds.
Request(item) ==
    [Method |-> "POST",
     Path |-> <<"/.cbfs/backup/restore/">> \o item.Path,
     Body |-> item.Meta,
     ContentType |-> "application/json",
     Expiration |-> restoreExpire]

\* The switch without the !*restoreForce test: a conflict is never an error.
OutcomeConflictAlwaysOK(status, force) ==
    CASE status = StatusCreated -> "Restored"
      [] status = StatusConflict -> "Skipped"
      [] OTHER -> "Failed"

\* The switch without the conflict case: every status but 201 is an error.
OutcomeConflictAlwaysFails(status, force) ==
    CASE status = StatusCreated -> "Restored"
      [] OTHER -> "Failed"

\* The switch on res.StatusCode.
Outcome(status, force) ==
    CASE status = StatusCreated -> "Restored"
      [] status = StatusConflict /\ ~force -> "Skipped"
      [] OTHER -> "Failed"

\* restoreFile without the *restoreNoop test: the request always goes out.
RestoreFileIgnoreNoop(w) ==
    /\ proc = "running" /\ wpc[w] = "restore"
    /\ requests' = requests \cup {Request(wob[w])}
    /\ wpc' = [wpc EXCEPT ![w] = "http"]
    /\ UNCHANGED <<flags, mainv, procv, logged, finished, wob, answered, wg, received>>

\* restoreFile under a lock shared by the workers: no request goes out while
\* another worker waits for the server.
RestoreFileSerialised(w) ==
    /\ proc = "running" /\ wpc[w] = "restore"
    /\ \A v \in Workers : wpc[v] \notin {"http", "stalled"}
    /\ IF restoreNoop
       THEN /\ logged' = logged (+) LogLine("NOOP would restore", wob[w].Path)
            /\ finished' = finished \cup {wob[w].Meta}
            /\ wpc' = [wpc EXCEPT ![w] = "range"]
            /\ wob' = [wob EXCEPT ![w] = NoItem]
            /\ UNCHANGED requests
       ELSE /\ requests' = requests \cup {Request(wob[w])}
            /\ wpc' = [wpc EXCEPT ![w] = "http"]
            /\ UNCHANGED <<logged, finished, wob>>
    /\ UNCHANGED <<flags, mainv, procv, answered, wg, received>>

\* restoreFile up to http.DefaultClient.Do: with -n it logs and returns nil
\* (the worker then goes back to the range); otherwise the request goes out.
RestoreFile(w) ==
    /\ proc = "running" /\ wpc[w] = "restore"
    /\ IF restoreNoop
       THEN /\ logged' = logged (+) LogLine("NOOP would restore", wob[w].Path)
            /\ finished' = finished \cup {wob[w].Meta}
            /\ wpc' = [wpc EXCEPT ![w] = "range"]
            /\ wob' = [wob EXCEPT ![w] = NoItem]
            /\ UNCHANGED requests
       ELSE /\ requests' = requests \cup {Request(wob[w])}
            /\ wpc' = [wpc EXCEPT ![w] = "http"]
            /\ UNCHANGED <<logged, finished, wob>>
    /\ UNCHANGED <<flags, mainv, procv, answered, wg, received>>

\* A worker that returns from its loop when restoreFile returns an error.
ResponseQuitOnError(w, status) ==
    /\ proc = "running" /\ wpc[w] = "http"
    /\ answered' = answered \cup {status}
    /\ logged' = CASE Outcome(status, restoreForce) = "Restored" ->
                        logged (+) LogLine("Restored", wob[w].Path)
                   [] Outcome(status, restoreForce) = "Skipped" -> logged
                   [] OTHER -> logged (+) LogLine("Error restoring", wob[w].Path)
    /\ finished' = finished \cup {wob[w].Meta}
    /\ wob' = [wob EXCEPT ![w] = NoItem]
    /\ IF Outcome(status, restoreForce) = "Failed"
       THEN /\ wpc' = [wpc EXCEPT ![w] = "exited"]
            /\ wg' = wg - 1
       ELSE /\ wpc' = [wpc EXCEPT ![w] = "range"]
            /\ wg' = wg
    /\ UNCHANGED <<flags, mainv, procv, requests, received>>

\* The server answers with a status: the rest of restoreFile, and the
\* worker's error log when restoreFile returns an error.
Response(w, status) ==
    /\ proc = "running" /\ wpc[w] = "http"
    /\ answered' = answered \cup {status}
    /\ logged' = CASE Outcome(status, restoreForce) = "Restored" ->
                        logged (+) LogLine("Restored", wob[w].Path)
                   [] Outcome(status, restoreForce) = "Skipped" -> logged
                   [] OTHER -> logged (+) LogLine("Error restoring", wob[w].Path)
    /\ finished' = finished \cup {wob[w].Meta}
    /\ wpc' = [wpc EXCEPT ![w] = "range"]
    /\ wob' = [wob EXCEPT ![w] = NoItem]
    /\ UNCHANGED <<flags, mainv, procv, requests, wg, received>>

\* http.DefaultClient.Do returns an error: MaybeFatal ends the process.
TransportError(w) ==
    /\ proc = "running" /\ wpc[w] = "http"
    /\ MaybeFatal(TRUE, "Error executing POST")
    /\ UNCHANGED <<flags, mainv, workv, wg, received>>

\* http.DefaultClient has no timeout: the call may never return.
Stall(w) ==
    /\ proc = "running" /\ wpc[w] = "http"
    /\ wpc' = [wpc EXCEPT ![w] = "stalled"]
    /\ UNCHANGED <<flags, mainv, procv, wob, finished, requests, answered, logged, wg, received>>

\* A worker that returns without wg.Done().
WorkerExitNoDone(w) ==
    /\ proc = "running" /\ wpc[w] = "range"
    /\ closed > 0
    /\ wpc' = [wpc EXCEPT ![w] = "exited"]
    /\ UNCHANGED <<flags, mainv, procv, wob, finished, requests, answered, logged, wg, received>>

\* The range loop ends on the closed channel; the deferred wg.Done() runs.
WorkerExit(w) ==
    /\ proc = "running" /\ wpc[w] = "range"
    /\ closed > 0
    /\ wpc' = [wpc EXCEPT ![w] = "exited"]
    /\ wg' = wg - 1
    /\ UNCHANGED <<flags, mainv, procv, wob, finished, requests, answered, logged, received>>

Next ==
    \/ Compile
    \/ Open
    \/ Gzip
    \/ Spawn
    \/ Decode
    \/ \E w \in Workers : Recv(w)
    \/ Deadlock
    \/ Close
    \/ Wait
    \/ Summary
    \/ Return
    \/ \E w \in Workers : RestoreFile(w)
    \/ \E w \in Workers, status \in StatusCodes : Response(w, status)
    \/ \E w \in Workers : TransportError(w)
    \/ \E w \in Workers : Stall(w)
    \/ \E w \in Workers : WorkerExit(w)

Spec == Init /\ [][Next]_vars

\* The steps of the main goroutine and of worker w that depend on the Go
\* scheduler alone.
MainStep ==
    Compile \/ Open \/ Gzip \/ Spawn \/ Decode \/ Deadlock \/ Close \/ Wait \/ Summary \/ Return

WorkerStep(w) == RestoreFile(w) \/ WorkerExit(w)

\* Fairness: a goroutine that can run is eventually run, a send that a worker
\* is ready to receive is eventually received, and a request that neither
\* fails nor stalls is eventually answered.
Fairness ==
    /\ WF_vars(MainStep)
    /\ WF_vars(\E w \in Workers : Recv(w))
    /\ \A w \in Workers : WF_vars(WorkerStep(w))
    /\ \A w \in Workers : WF_vars(\E status \in StatusCodes : Response(w, status))

FairSpec == LiveInit /\ [][Next]_vars /\ Fairness


(* ---------------------------------------------------------------------- *)
(* Vocabulary of the properties                                           *)
(* ---------------------------------------------------------------------- *)

\* Element k of the stream is a well-formed record whose path the pattern matches.
Matching(k) == stream[k].ok /\ MatchString(restorePat, stream[k].Path)

\* Record k has been decoded and has passed the filter.
Accepted(k) == k \in 1..pos /\ Matching(k)

ReceivedMetas == {received[n][2].Meta : n \in DOMAIN received}

\* Worker w is inside a restoreFile call.
InCall(w) == wpc[w] \in {"restore", "http", "stalled"}

Lines(kind) == {l \in BagToSet(logged) : l[1] = kind}

RECURSIVE SumCopies(_)
SumCopies(ls) ==
    IF ls = {} THEN 0
    ELSE LET l == CHOOSE x \in ls : TRUE
         IN  CopiesIn(l, logged) + SumCopies(ls \ {l})

\* Number of log lines of one kind.
Count(kind) == SumCopies(Lines(kind))

(* ---------------------------------------------------------------------- *)
(* Properties                                                             *)
(* ---------------------------------------------------------------------- *)

\* C1: with at least one worker, every decoded record that passes the filter
\* is received by exactly one worker exactly once: no item is received twice,
\* only accepted records are received, an accepted record is either received
\* or is the one the sender is holding, and when the run ends normally every
\* matching record of the stream has been received.
C1_ExactlyOnce ==
    restoreWorkers >= 1 =>
        /\ \A m, n \in DOMAIN received :
               received[m][2].Meta = received[n][2].Meta => m = n
        /\ \A n \in DOMAIN received :
               /\ Accepted(received[n][2].Meta)
               /\ received[n][2].Path = stream[received[n][2].Meta].Path
               /\ received[n][1] \in 1..restoreWorkers
        /\ \A k \in 1..pos :
               Accepted(k) => (k \in ReceivedMetas \/ (pc = "send" /\ ob.Meta = k))
        /\ proc = "exit0" =>
               \A k \in 1..Len(stream) : Matching(k) => k \in ReceivedMetas

\* Two accepted records, received by two different workers, and the run done.
C1_Witness ==
    /\ proc = "exit0"
    /\ Len(received) = 2
    /\ received[1][1] # received[2][1]

\* C2: the summary line is printed only when every worker has exited and
\* every received item has finished its restoreFile call.
C2_SummaryAfterJoin ==
    summary # -1 =>
        /\ \A w \in Workers : wpc[w] = IF w <= restoreWorkers THEN "exited" ELSE "unstarted"
        /\ \A w \in Workers : ~InCall(w)
        /\ ReceivedMetas \subseteq finished
        /\ wg = 0

\* The summary printed after two workers handled two items.
C2_Witness ==
    /\ summary = 2
    /\ restoreWorkers = 2
    /\ Len(received) = 2
    /\ received[1][1] # received[2][1]

\* C3: the channel is closed at most once, only after the decode loop has seen
\* the end of the stream (or a fatal decode error), and from the close on no
\* send is attempted or pending: the main goroutine is past the loop.
C3_CloseOnceAfterLoop ==
    /\ closed <= 1
    /\ closed > 0 =>
           /\ done \/ fatal = "Error reading backup file"
           /\ pos = Len(stream)
           /\ pc \in {"wait", "summary", "return", "done"}
           /\ ob = NoItem

\* The channel closed after items were sent on it.
C3_Witness ==
    /\ closed = 1
    /\ Len(received) = 2

\* C4: a decoded record whose path does not match the pattern is never sent,
\* never reaches restoreFile, is never logged and never counted: the accepted
\* count is the number of matching records decoded so far.
C4_FilteredNeverDispatched ==
    /\ \A k \in 1..Len(stream) :
           (stream[k].ok /\ ~MatchString(restorePat, stream[k].Path)) =>
               /\ k \notin ReceivedMetas
               /\ k \notin finished
               /\ ob.Meta # k
               /\ \A w \in Workers : wob[w].Meta # k
               /\ \A r \in requests : r.Body # k
    /\ \A l \in BagToSet(logged) : \E k \in 1..pos : Accepted(k) /\ stream[k].Path = l[2]
    /\ nfiles = Cardinality({k \in 1..pos : Accepted(k)})

\* A finished run over a stream with one matching and one non-matching record.
C4_Witness ==
    /\ proc = "exit0"
    /\ nfiles = 1
    /\ Len(stream) = 2
    /\ \E k \in 1..2 : stream[k].ok /\ ~MatchString(restorePat, stream[k].Path)
    /\ Cardinality(finished) = 1


\* Position of the first malformed element of the stream, 0 if there is none.
FirstMalformed ==
    IF \E k \in 1..Len(stream) : ~stream[k].ok
    THEN CHOOSE k \in 1..Len(stream) : ~stream[k].ok /\ \A j \in 1..(k - 1) : stream[j].ok
    ELSE 0

\* C5: when the decoder hits a malformed record, nothing after it is decoded
\* and every item received by a worker before it has finished its restoreFile
\* call when the process has reported the error and ended.
C5_DrainBeforeDecodeAbort ==
    fatal = "Error reading backup file" =>
        /\ pos = FirstMalformed
        /\ ReceivedMetas \subseteq finished

\* C6: when a restore call fails at the transport level, the calls in
\* progress on the other workers are not cut off: when the process has ended,
\* no worker but the failing one is inside a call.
C6_TransportFailureDrains ==
    fatal = "Error executing POST" =>
        Cardinality({w \in Workers : InCall(w)}) <= 1

\* C7: with -n no request is issued, whatever -f, -match and -expire are:
\* no worker is ever waiting for the server, no status is answered, no error
\* is logged, and every finished item has its NOOP line.
C7_NoopNoNetwork ==
    restoreNoop =>
        /\ requests = {}
        /\ answered = {}
        /\ \A w \in Workers : wpc[w] \notin {"http", "stalled"}
        /\ fatal # "Error executing POST"
        /\ Count("Error restoring") = 0
        /\ Count("Restored") = 0
        /\ Count("NOOP would restore") = Cardinality(finished)

\* A finished noop run with -f, a restricting pattern and an expire override.
C7_Witness ==
    /\ restoreNoop /\ restoreForce
    /\ restorePat = PatAC
    /\ restoreExpire # ExpireDefault
    /\ proc = "exit0"
    /\ Cardinality(finished) = 2

\* No restore or failure line is logged as long as -f is unset and the server
\* has answered nothing but 409.
C8_Silent ==
    (~restoreForce /\ answered \subseteq {StatusConflict}) =>
        /\ Count("Restored") = 0
        /\ Count("Error restoring") = 0

\* C8: with -f unset and a server that answers 409 to every request, the run
\* over a stream of well-formed records, with at least one worker, reaches
\* Done, and no item is logged as a failure or as restored.
C8_ConflictSilentSkip ==
    /\ []C8_Silent
    /\ <>(\/ proc = "exit0"
          \/ restoreForce
          \/ restoreWorkers < 1
          \/ fatal # ""
          \/ ~(answered \subseteq {StatusConflict})
          \/ \E w \in Workers : wpc[w] = "stalled")

\* Done after two workers got a 409 each, without -f and without -n.
C8_Witness ==
    /\ proc = "exit0"
    /\ ~restoreForce /\ ~restoreNoop
    /\ answered = {StatusConflict}
    /\ Cardinality(requests) = 2
    /\ restoreWorkers = 2
    /\ logged = EmptyBag

\* Every matching record of the stream has exactly one failure line (lines
\* carry the path, so per path: as many lines as matching records with it),
\* and nothing is logged as restored.
AllLoggedFailedOnce ==
    /\ \A p \in Paths :
           CopiesIn(<<"Error restoring", p>>, logged) =
               Cardinality({k \in 1..Len(stream) : Matching(k) /\ stream[k].Path = p})
    /\ Count("Restored") = 0

\* C9 as stated: with -f and a server that answers 409 to every request, at
\* Done every accepted item is logged as a failure exactly once and none as
\* restored.
C9_Original ==
    (proc = "exit0" /\ restoreForce /\ answered \subseteq {StatusConflict}) =>
        AllLoggedFailedOnce

\* C9 as amended: with -f set, -n unset and a server that answers 409 to every
\* request, at Done every accepted item is logged as a failure exactly once
\* and none as restored.
C9_ForceConflictFails ==
    (proc = "exit0" /\ restoreForce /\ ~restoreNoop /\ answered \subseteq {StatusConflict}) =>
        AllLoggedFailedOnce

\* Done with -f after two 409 answers, both logged as failures.
C9_Witness ==
    /\ proc = "exit0"
    /\ restoreForce /\ ~restoreNoop
    /\ answered = {StatusConflict}
    /\ Count("Error restoring") = 2

\* Worker w gets an answer in this step and logs it as an error.
FailedStep(w) ==
    /\ wpc[w] = "http"
    /\ wpc'[w] # "http"
    /\ finished' # finished
    /\ Count("Error restoring")' = Count("Error restoring") + 1

\* C10: a Failed outcome of one item ends neither the worker nor the run: the
\* worker is back at its range loop, the process runs on, the WaitGroup and
\* the other workers are as before, and at Done every matching record of the
\* stream has finished its call, whatever failed.
C10_FailureIsPerItem ==
    /\ [](proc = "exit0" =>
             \A k \in 1..Len(stream) : Matching(k) => k \in finished)
    /\ [][\A w \in Workers :
             FailedStep(w) =>
                 /\ wpc'[w] = "range"
                 /\ proc' = "running"
                 /\ wg' = wg
                 /\ \A v \in Workers \ {w} : wpc'[v] = wpc[v]]_vars

\* One worker, the stream a, b: a failed, and the same worker then restored b.
C10_Witness ==
    /\ proc = "exit0"
    /\ restoreWorkers = 1
    /\ Len(stream) = 2 /\ stream[1].Path = <<"a">> /\ stream[2].Path = <<"b">>
    /\ CopiesIn(<<"Error restoring", <<"a">>>>, logged) = 1
    /\ CopiesIn(<<"Restored", <<"b">>>>, logged) = 1


\* The matching records that precede the first malformed element: those the
\* decode loop accepts before it ends.
AcceptedByStream ==
    {k \in 1..Len(stream) : Matching(k) /\ (FirstMalformed = 0 \/ k < FirstMalformed)}

\* C11: the final counts do not depend on the number of workers nor on the
\* interleaving: when a run with at least one worker, whose requests were all
\* answered, has ended, the accepted count is the number of matching records
\* the stream gives, each of them has had its outcome, and the logged lines
\* are at most one per item.
C11_FinalCountsDetermined ==
    (/\ proc # "running"
     /\ restoreWorkers >= 1
     /\ fatal # "Error executing POST"
     /\ \A w \in Workers : wpc[w] # "stalled") =>
        /\ nfiles = Cardinality(AcceptedByStream)
        /\ finished = AcceptedByStream
        /\ Count("Restored") + Count("Error restoring") + Count("NOOP would restore")
               <= nfiles

\* Items accepted by the filter whose restoreFile call has not finished,
\* the one the main goroutine holds for the send included.
InFlight == nfiles - Cardinality(finished)

\* C12 as stated: with at least one worker, the number of in-flight items,
\* the item held for the send included, never exceeds the worker count.
C12_Original == restoreWorkers >= 1 => InFlight <= restoreWorkers

\* C12 as amended: the number of in-flight items never exceeds the worker
\* count plus one: one item per worker, and the one the main goroutine holds
\* while it is blocked on the send.
C12_InFlightBound ==
    /\ InFlight <= restoreWorkers + 1
    /\ InFlight = Cardinality({w \in Workers : InCall(w)}) + (IF pc = "send" THEN 1 ELSE 0)
    /\ Cardinality({w \in Workers : InCall(w)}) <= restoreWorkers

\* One worker inside a call while the main goroutine holds the next item.
C12_Witness ==
    /\ restoreWorkers = 1
    /\ pc = "send"
    /\ InCall(1)
    /\ InFlight = 2

\* C13: in every state in which the process has ended, the source file has
\* been closed.
C13_SourceReleased ==
    proc # "running" => ~fOpen

\* C14: the number in the summary is the accepted count, which is the number
\* of matching records and the number of items handed to workers; for the
\* stream a, b, c with the pattern ^a|c$ it is 2, b being filtered out.
C14_SummaryCount ==
    summary # -1 =>
        /\ summary = nfiles
        /\ summary = Cardinality({k \in 1..Len(stream) : Matching(k)})
        /\ summary = Len(received)
        /\ (source = ScenarioSource /\ restorePat = PatAC) =>
               /\ summary = 2
               /\ ReceivedMetas = {1, 3}

\* The summary of the scenario run.
C14_Witness ==
    /\ source = ScenarioSource
    /\ restorePat = PatAC
    /\ summary = 2
    /\ proc = "exit0"

\* C15: once a fatal condition has occurred the process has ended with a
\* non-zero status and the summary has not been printed; the summary and the
\* zero status are reached only with a valid pattern, a readable gzip source,
\* no malformed record and no failed transport.
C15_FatalNeverSucceeds ==
    /\ fatal # "" => (proc \in {"exit1", "exit2"} /\ summary = -1 /\ pc # "done")
    /\ (summary # -1 \/ proc = "exit0") =>
           /\ fatal = ""
           /\ ~CompileFails(restorePat)
           /\ source.kind = "gzip"
           /\ FirstMalformed = 0
    /\ proc \in {"exit1", "exit2"} => fatal # ""

\* A run ended by a malformed record after an item was accepted.
C15_Witness ==
    /\ fatal = "Error reading backup file"
    /\ proc = "exit1"
    /\ nfiles >= 1

\* C16: the pipeline decodes and sends only with at least one worker, and
\* the main goroutine is never left on a send that no worker can receive.
C16_PoolNeverEmpty ==
    /\ pc \in {"decode", "send"} => restoreWorkers >= 1
    /\ proc # "exit2"


Stalled == {w \in Workers : wpc[w] = "stalled"}

\* C17: for a stream of well-formed records, at least one worker and a
\* server that answers every call, the run ends Done, with the channel closed
\* and every worker exited; and until it has ended some goroutine can always
\* take a step.
C17_Terminates ==
    /\ [](proc = "exit0" =>
             /\ closed = 1
             /\ \A w \in 1..restoreWorkers : wpc[w] = "exited")
    /\ []((proc = "running" /\ restoreWorkers >= 1 /\ Stalled = {}) => ENABLED Next)
    /\ <>(\/ proc = "exit0"
          \/ fatal # ""
          \/ restoreWorkers < 1
          \/ Stalled # {})

\* Done after two workers each got an answer, one of them an error status.
C17_Witness ==
    /\ proc = "exit0"
    /\ restoreWorkers = 2
    /\ Len(received) = 2
    /\ StatusOther \in answered
    /\ \A w \in Workers : wpc[w] = "exited"

\* C18: a call that never returns stalls its own worker only: unless every
\* worker is stalled (or the process is ended by a fatal condition), the main
\* goroutine reaches the end of the stream and closes the channel, and every
\* matching record is processed, but for those held by stalled workers.
C18_StallIsLocal ==
    <>(\/ fatal # ""
       \/ restoreWorkers < 1
       \/ \A w \in 1..restoreWorkers : w \in Stalled
       \/ /\ closed > 0
          /\ \A k \in 1..Len(stream) :
                 Matching(k) => (k \in finished \/ \E w \in Stalled : wob[w].Meta = k))

\* Worker 1 stalled on the first item; worker 2 processed the second and
\* left after the channel was closed.
C18_Witness ==
    /\ restoreWorkers = 2
    /\ wpc[1] = "stalled" /\ wob[1].Meta = 1
    /\ wpc[2] = "exited"
    /\ closed = 1
    /\ finished = {2}

\* C19: accepted items are received in stream order.
C19_StreamOrder ==
    \A m, n \in DOMAIN received :
        m < n => received[m][2].Meta < received[n][2].Meta

\* Two items received in stream order, the second finished before the first.
C19_Witness ==
    /\ Len(received) = 2
    /\ received[2][2].Meta \in finished
    /\ received[1][2].Meta \notin finished

Started == {w \in Workers : wpc[w] # "unstarted"}

\* Items worker w has received and not finished.
Holding(w) ==
    {n \in DOMAIN received : received[n][1] = w /\ received[n][2].Meta \notin finished}

\* C20: the workers started are the first i of the spawn loop, never more
\* than -workers says; nothing is decoded or sent before the loop has started
\* all of them, and from then on their number is exactly -workers; each
\* worker holds at most one unfinished item.
C20_PoolStartedFirst ==
    /\ Started = 1..i
    /\ i <= restoreWorkers
    /\ pc \in {"compile", "open", "gzip", "spawn"} =>
           (pos = 0 /\ nfiles = 0 /\ received = <<>>)
    /\ pc \notin {"compile", "open", "gzip", "spawn"} => i = restoreWorkers
    /\ wg = Cardinality({w \in Started : wpc[w] # "exited"})
    /\ \A w \in Workers :
           /\ Cardinality(Holding(w)) <= 1
           /\ (Cardinality(Holding(w)) = 1) <=> InCall(w)

\* Two workers started; one of them handled both items, one after the other.
C20_Witness ==
    /\ restoreWorkers = 2
    /\ Started = {1, 2}
    /\ Len(received) = 2
    /\ received[1][1] = received[2][1]
    /\ proc = "exit0"

====
